---- MODULE Spec2Model ----
(***************************************************************************)
(* A model of pymathml (package pymathml: core.py and utils.py).           *)
(*                                                                         *)
(* Python objects live in a heap: a sequence of records, an object's       *)
(* identity being its index.  A Python value at the API boundary is a      *)
(* tagged record (None, an int, a str, a reference to a heap object, or a  *)
(* list standing for any unsupported type).  Markup is a TLA+ string built *)
(* with \o exactly as the code concatenates it.  A call returns a record   *)
(* holding the heap after the call and either a value or the exception it  *)
(* raised.                                                                 *)
(***************************************************************************)
EXTENDS Integers, Sequences, FiniteSets, TLC

VARIABLES heap, ret

vars == <<heap, ret>>

(***************************************************************************)
(* Bounds of the model.                                                    *)
(***************************************************************************)
\* objects a run of Spec may allocate besides the class-level operators
MaxObjects == 2
\* positional arguments passed to one constructor call
MaxArgs == 3
\* operators a run of SpecOps may apply
MaxOps == 2
\* values in a tuple used as a subscript key
MaxKey == 2

\* rows of a table, and cells of a row, at most
MaxCells == 2

(***************************************************************************)
(* Python values.                                                          *)
(***************************************************************************)
None_ == [t |-> "None", i |-> 0, s |-> ""]
PyInt(n) == [t |-> "int", i |-> n, s |-> ""]
PyStr(x) == [t |-> "str", i |-> 0, s |-> x]
Ref(id) == [t |-> "ref", i |-> id, s |-> ""]
\* a list: a value that is neither None, a node, a number nor a str
List_ == [t |-> "list", i |-> 0, s |-> ""]

\* the result of a call: the heap after it, and a value or an exception
Return(h, v) == [heap |-> h, ok |-> TRUE, v |-> v, s |-> ""]
ReturnStr(h, x) == [heap |-> h, ok |-> TRUE, v |-> PyStr(x), s |-> x]
Raise(h, exc) == [heap |-> h, ok |-> FALSE, v |-> None_, s |-> exc]

Digits == <<"0", "1", "2", "3", "4", "5", "6", "7", "8", "9">>

RECURSIVE NatToStr(_)
NatToStr(n) ==
    IF n < 10 THEN Digits[n + 1]
    ELSE NatToStr(n \div 10) \o Digits[(n % 10) + 1]

\* str(n) of a Python int
IntToStr(n) == IF n < 0 THEN "-" \o NatToStr(-n) ELSE NatToStr(n)

RECURSIVE join(_, _)
\* sep.join(items)
join(sep, items) ==
    IF items = <<>> THEN ""
    ELSE IF Len(items) = 1 THEN items[1]
    ELSE items[1] \o sep \o join(sep, Tail(items))

(***************************************************************************)
(* The classes of core.py.                                                 *)
(***************************************************************************)
TokenClasses == {"Identifier", "Number", "Operator", "Text"}
PlainClasses ==
    {"Row", "Frac", "Sqrt", "Root", "Style", "Fenced", "Sub", "Sup", "SubSup",
     "Under", "Over", "UnderOver", "Table", "TableRow", "TableEntry"}
UnaryClasses == {"Pos", "Neg"}
BinaryClasses == {"Equals", "Plus", "Minus", "Times"}
NaryClasses == {"Sum"}
ExpressionClasses ==
    PlainClasses \cup UnaryClasses \cup BinaryClasses \cup NaryClasses

\* the class attribute tag
tag(cls) ==
    CASE cls = "Identifier" -> "mi"
      [] cls = "Number" -> "mn"
      [] cls = "Operator" -> "mo"
      [] cls = "Text" -> "mtext"
      [] cls = "Row" -> "mrow"
      [] cls = "Frac" -> "mfrac"
      [] cls = "Sqrt" -> "msqrt"
      [] cls = "Root" -> "mroot"
      [] cls = "Style" -> "mstyle"
      [] cls = "Fenced" -> "mfenced"
      [] cls = "Sub" -> "msub"
      [] cls = "Sup" -> "msup"
      [] cls = "SubSup" -> "msubsup"
      [] cls = "Under" -> "munder"
      [] cls = "Over" -> "mover"
      [] cls = "UnderOver" -> "munderover"
      [] cls = "Table" -> "mtable"
      [] cls = "TableRow" -> "mtr"
      [] cls = "TableEntry" -> "mtd"

\* the glyphs, written as their code points (the module is ASCII)
INVISIBLE_TIMES == "U+2062"
N_ARY_SUMMATION == "U+2211"

\* the classes that carry a class attribute operator, in the order core.py
\* creates them
OperationClasses == <<"Pos", "Neg", "Equals", "Plus", "Minus", "Times", "Sum">>

\* the string each operation class is created with
OperatorGlyph(cls) ==
    CASE cls = "Pos" -> "+"
      [] cls = "Neg" -> "-"
      [] cls = "Equals" -> "="
      [] cls = "Plus" -> "+"
      [] cls = "Minus" -> "-"
      [] cls = "Times" -> INVISIBLE_TIMES
      [] cls = "Sum" -> N_ARY_SUMMATION

\* a Token object: Token.__init__ stores value and attributes
Token(cls, value, attributes) ==
    [cls |-> cls, value |-> value, children |-> <<>>,
     attributes |-> attributes]

\* the Operator objects held as class attributes: the heap once core.py is
\* imported, object k being the operator of OperationClasses[k]
ClassOperators ==
    [k \in 1..Len(OperationClasses) |->
        Token("Operator", PyStr(OperatorGlyph(OperationClasses[k])), <<>>)]

\* self.operator of an instance of cls
operator(cls) ==
    Ref(CHOOSE k \in 1..Len(OperationClasses) : OperationClasses[k] = cls)

\* the objects allocated since the import
UserIds(h) == (Len(ClassOperators) + 1)..Len(h)

(***************************************************************************)
(* Serialization.                                                          *)
(***************************************************************************)
\* str(v): an object that defines no __str__ prints as its class and address;
\* the address, which differs from run to run, is written as the object's
\* index in the heap
py_str(h, v) ==
    CASE v.t = "None" -> "None"
      [] v.t = "int" -> IntToStr(v.i)
      [] v.t = "str" -> v.s
      [] v.t = "list" -> "[]"
      [] v.t = "ref" ->
            "<pymathml.core." \o h[v.i].cls \o " object at " \o IntToStr(v.i)
                \o ">"

\* the children argument of to_xml_string: omitted, or a list of strings
NoChildren == [given |-> FALSE, items |-> <<>>]
Children(items) == [given |-> TRUE, items |-> items]

\* a rendering: the markup, or the exception raised
Rendered(x) == [ok |-> TRUE, s |-> x]
Failed(exc) == [ok |-> FALSE, s |-> exc]

to_xml_string(h, tag_, text, children, attributes) ==
    LET text_ == IF text.t = "None" THEN "" ELSE py_str(h, text)
        attributes_str ==
            IF attributes = <<>> THEN ""
            ELSE " " \o join(" ", [k \in 1..Len(attributes) |->
                        attributes[k][1] \o "=\""
                            \o py_str(h, attributes[k][2]) \o "\""])
        children_str ==
            IF ~children.given THEN "" ELSE join("", children.items)
    IN  "<" \o tag_ \o attributes_str \o ">" \o children_str \o text_
            \o "</" \o tag_ \o ">"

(***************************************************************************)
(* Construction.                                                           *)
(***************************************************************************)
\* Token.__init__: a new object holding value and attributes as given
Token_init(h, cls, value, attributes) ==
    Return(Append(h, Token(cls, value, attributes)), Ref(Len(h) + 1))

\* a coercion with the token classes of numbers and of text exchanged
expression_swapped(h, expr) ==
    IF expr.t = "None" THEN Return(h, None_)
    ELSE IF expr.t = "ref" THEN Return(h, expr)
    ELSE IF expr.t = "int" THEN Token_init(h, "Identifier", expr, <<>>)
    ELSE IF expr.t = "str" THEN Token_init(h, "Number", expr, <<>>)
    ELSE Raise(h, "ValueError: operand")

\* the coercion function
expression(h, expr) ==
    IF expr.t = "None" THEN Return(h, None_)
    ELSE IF expr.t = "ref" THEN Return(h, expr)
    ELSE IF expr.t = "int" THEN Token_init(h, "Number", expr, <<>>)
    ELSE IF expr.t = "str" THEN Token_init(h, "Identifier", expr, <<>>)
    ELSE Raise(h, "ValueError: operand")

RECURSIVE coerce_each(_, _, _)
\* [expression(e) for e in expressions]: left to right, the first failure
\* ends the comprehension
coerce_each(h, expressions, children) ==
    IF expressions = <<>> THEN [heap |-> h, ok |-> TRUE, children |-> children]
    ELSE LET r == expression(h, Head(expressions))
         IN  IF ~r.ok THEN [heap |-> h, ok |-> FALSE, children |-> <<>>]
             ELSE coerce_each(r.heap, Tail(expressions), Append(children, r.v))

\* a constructor that stores its arguments as they come, as
\* self.children = expressions would
Expression_init_raw(h, cls, expressions, attributes) ==
    Return(Append(h, [cls |-> cls, value |-> None_,
                      children |-> expressions, attributes |-> attributes]),
           Ref(Len(h) + 1))

\* Expression.__init__: every class made by expression_type,
\* unary_operation_type, binary_operation_type and nary_operation_type
\* inherits it unchanged and so takes any number of positional arguments
Expression_init(h, cls, expressions, attributes) ==
    LET c == coerce_each(h, expressions, <<>>)
    IN  IF ~c.ok THEN Raise(h, "ValueError: operand")
        ELSE Return(Append(c.heap,
                        [cls |-> cls, value |-> None_,
                         children |-> c.children, attributes |-> attributes]),
                    Ref(Len(c.heap) + 1))

(***************************************************************************)
(* Rendering.                                                              *)
(***************************************************************************)
\* the element of a set of one element: The({F(x) : x \in {v}}) is F(v) with
\* v worked out once
The(S) == CHOOSE x \in S : TRUE

\* the outcome of a to_mml call: the heap it leaves, and the markup it
\* returns or the exception it raises
Wrote(h, r) == [heap |-> h, ok |-> r.ok, s |-> r.s]

\* a keyword argument of to_xml_string written out in the call, or left out
Given(v) == [given |-> TRUE, v |-> v]
NotGiven == [given |-> FALSE, v |-> None_]

\* the keys of **attributes
KeyNames(attributes) == {attributes[k][1] : k \in 1..Len(attributes)}

\* attributes[key]
Lookup(attributes, key) ==
    attributes[CHOOSE k \in 1..Len(attributes) : attributes[k][1] = key][2]

\* the pairs of **attributes left once Python has bound the named parameters
Unbound(attributes) ==
    SelectSeq(attributes, LAMBDA pair : pair[1] \notin {"text", "children"})

\* the call to_xml_string(tag, text=..., children=..., **attributes): a key
\* of attributes named as a parameter the call already gives is a TypeError;
\* one named text or children that the call does not give is bound to that
\* parameter and is no attribute; ''.join(str(c) for c in children) of a str
\* is that str, and a number is not iterable
call_to_xml_string(h, tag_, text, children, attributes) ==
    LET keys == KeyNames(attributes)
        text_ == IF text.given THEN text.v
                 ELSE IF "text" \in keys THEN Lookup(attributes, "text")
                 ELSE None_
        bound == IF "children" \in keys THEN Lookup(attributes, "children")
                 ELSE None_
        children_ == IF children.given THEN children
                     ELSE IF bound.t = "str" THEN Children(<<bound.s>>)
                     ELSE NoChildren
    IN  IF \/ "tag" \in keys
           \/ text.given /\ "text" \in keys
           \/ children.given /\ "children" \in keys
        THEN Failed("TypeError")
        ELSE IF ~children.given /\ bound.t \notin {"None", "str"}
        THEN Failed("TypeError")
        ELSE Rendered(to_xml_string(h, tag_, text_, children_,
                                    Unbound(attributes)))

Token_to_mml(h, self) ==
    Wrote(h, call_to_xml_string(h, tag(h[self].cls),
                                Given(PyStr(py_str(h, h[self].value))),
                                NotGiven, h[self].attributes))

RECURSIVE self_to_mml(_, _)

\* a wrapper that writes display before xmlns
to_mml_display_first(h, expr, display) ==
    The({IF ~e.ok THEN e
         ELSE IF display.t = "None" THEN e
         ELSE Wrote(e.heap,
                  Rendered(to_xml_string(h, "math", None_, Children(<<e.s>>),
                      << <<"display", PyStr(py_str(h, display))>>,
                         <<"xmlns",
                           PyStr("http://www.w3.org/1998/Math/MathML")>> >>)))
         : e \in {IF expr.t = "None" THEN Wrote(h, Rendered(""))
                  ELSE LET c == expression(h, expr)
                       IN  IF ~c.ok THEN Wrote(h, Failed(c.s))
                           ELSE self_to_mml(c.heap, c.v.i)}})

\* the module-level to_mml(expr, display)
to_mml(h, expr, display) ==
    The({IF ~e.ok THEN e
         ELSE IF display.t = "None" THEN e
         ELSE Wrote(e.heap,
                  Rendered(to_xml_string(h, "math", None_, Children(<<e.s>>),
                      << <<"xmlns",
                           PyStr("http://www.w3.org/1998/Math/MathML")>>,
                         <<"display", PyStr(py_str(h, display))>> >>)))
         : e \in {IF expr.t = "None" THEN Wrote(h, Rendered(""))
                  ELSE LET c == expression(h, expr)
                       IN  IF ~c.ok THEN Wrote(h, Failed(c.s))
                           ELSE self_to_mml(c.heap, c.v.i)}})

RECURSIVE to_mml_each(_, _, _)
\* [to_mml(c) for c in children]: left to right, the first exception ends
\* the comprehension
to_mml_each(h, children, items) ==
    IF children = <<>> THEN [heap |-> h, ok |-> TRUE, s |-> "", items |-> items]
    ELSE The({IF ~r.ok
              THEN [heap |-> r.heap, ok |-> FALSE, s |-> r.s, items |-> <<>>]
              ELSE to_mml_each(r.heap, Tail(children), Append(items, r.s))
              : r \in {to_mml(h, Head(children), None_)}})

Expression_to_mml(h, self) ==
    The({IF ~kids.ok THEN Wrote(kids.heap, Failed(kids.s))
         ELSE Wrote(kids.heap,
                  call_to_xml_string(kids.heap, tag(h[self].cls), NotGiven,
                                     Children(kids.items),
                                     h[self].attributes))
         : kids \in {to_mml_each(h, h[self].children, <<>>)}})

\* Row(*children, **attributes).to_mml(): a new Row, then its rendering
RowOf(h, children, attributes) ==
    The({IF ~r.ok THEN Wrote(h, Failed(r.s))
         ELSE Expression_to_mml(r.heap, r.v.i)
         : r \in {Expression_init(h, "Row", children, attributes)}})

UnaryOperation_to_mml(h, self) ==
    IF h[self].children = <<>> THEN Wrote(h, Failed("IndexError"))
    ELSE RowOf(h, <<operator(h[self].cls), h[self].children[1]>>,
               h[self].attributes)

RECURSIVE interleave(_, _, _)
\* the loop of BinaryOperation.to_mml over self.children[1:]: it appends to
\* a list of its own
interleave(children, op, rest) ==
    IF rest = <<>> THEN children
    ELSE interleave(children \o <<op, Head(rest)>>, op, Tail(rest))

\* a loop that puts the operator after every operand, the last included
BinaryOperation_to_mml_trailing(h, self) ==
    IF h[self].children = <<>> THEN Wrote(h, Failed("IndexError"))
    ELSE RowOf(h, interleave(<<h[self].children[1]>>, operator(h[self].cls),
                             Tail(h[self].children))
                    \o <<operator(h[self].cls)>>,
               <<>>)

\* a loop that appends to self.children itself instead of a list of its own
BinaryOperation_to_mml_aliased(h, self) ==
    IF h[self].children = <<>> THEN Wrote(h, Failed("IndexError"))
    ELSE LET children == interleave(<<h[self].children[1]>>,
                                    operator(h[self].cls),
                                    Tail(h[self].children))
         IN  RowOf([h EXCEPT ![self].children = children], children, <<>>)

BinaryOperation_to_mml(h, self) ==
    IF h[self].children = <<>> THEN Wrote(h, Failed("IndexError"))
    ELSE RowOf(h, interleave(<<h[self].children[1]>>, operator(h[self].cls),
                             Tail(h[self].children)),
               <<>>)

\* the tests of start and end exchanged: Under for an upper limit, Over
\* for a lower one
NaryOperation_to_mml_swapped(h, self) ==
    IF Len(h[self].children) # 3 THEN Wrote(h, Failed("ValueError: unpack"))
    ELSE LET expr == h[self].children[1]
             start == h[self].children[2]
             end == h[self].children[3]
             op == operator(h[self].cls)
             w == IF start.t = "None"
                  THEN IF end.t # "None"
                       THEN Expression_init(h, "Under", <<op, end>>, <<>>)
                       ELSE Return(h, op)
                  ELSE IF end.t = "None"
                       THEN Expression_init(h, "Over", <<op, start>>, <<>>)
                       ELSE Expression_init(h, "UnderOver", <<op, start, end>>,
                                            <<>>)
         IN  RowOf(w.heap, <<w.v, expr>>, h[self].attributes)

NaryOperation_to_mml(h, self) ==
    IF Len(h[self].children) # 3 THEN Wrote(h, Failed("ValueError: unpack"))
    ELSE LET expr == h[self].children[1]
             start == h[self].children[2]
             end == h[self].children[3]
             op == operator(h[self].cls)
             w == IF end.t = "None"
                  THEN IF start.t # "None"
                       THEN Expression_init(h, "Under", <<op, start>>, <<>>)
                       ELSE Return(h, op)
                  ELSE IF start.t = "None"
                       THEN Expression_init(h, "Over", <<op, end>>, <<>>)
                       ELSE Expression_init(h, "UnderOver", <<op, start, end>>,
                                            <<>>)
         IN  RowOf(w.heap, <<w.v, expr>>, h[self].attributes)

\* self.to_mml(): Python's method resolution over the class of self
self_to_mml(h, self) ==
    LET cls == h[self].cls
    IN  IF cls \in TokenClasses THEN Token_to_mml(h, self)
        ELSE IF cls \in UnaryClasses THEN UnaryOperation_to_mml(h, self)
        ELSE IF cls \in BinaryClasses THEN BinaryOperation_to_mml(h, self)
        ELSE IF cls \in NaryClasses THEN NaryOperation_to_mml(h, self)
        ELSE Expression_to_mml(h, self)

\* what self.to_mml() returns or raises
method_to_mml(h, self) ==
    LET r == self_to_mml(h, self) IN [ok |-> r.ok, s |-> r.s]

\* the objects of the program after a call that left the heap h: those it
\* had before; the objects the call made are garbage once it is over
Live(h, before) == SubSeq(h, 1, Len(before))

\* utils.tomathml(expr, display): once expr is coerced, the call of its
\* method tomathml raises, for no class of core.py defines a method of that
\* name and None has none either; the lines after it are never reached
tomathml(h, expr, display) ==
    LET c == expression(h, expr)
    IN  IF ~c.ok THEN Failed(c.s) ELSE Failed("AttributeError")

RECURSIVE table_entries(_, _, _)
\* [TableEntry(e) for e in r]
table_entries(h, r, entries) ==
    IF r = <<>> THEN [heap |-> h, ok |-> TRUE, s |-> "", v |-> entries]
    ELSE The({IF ~e.ok THEN [heap |-> h, ok |-> FALSE, s |-> e.s, v |-> <<>>]
              ELSE table_entries(e.heap, Tail(r), Append(entries, e.v))
              : e \in {Expression_init(h, "TableEntry", <<Head(r)>>, <<>>)}})

RECURSIVE table_rows(_, _, _)
\* [TableRow(*[TableEntry(e) for e in r]) for r in cells]
table_rows(h, cells, rows) ==
    IF cells = <<>> THEN [heap |-> h, ok |-> TRUE, s |-> "", v |-> rows]
    ELSE The({IF ~e.ok THEN [heap |-> h, ok |-> FALSE, s |-> e.s, v |-> <<>>]
              ELSE The({table_rows(r.heap, Tail(cells), Append(rows, r.v))
                        : r \in {Expression_init(e.heap, "TableRow", e.v,
                                                 <<>>)}})
              : e \in {table_entries(h, Head(cells), <<>>)}})

\* utils.table(cells, **attributes)
table(h, cells, attributes) ==
    LET rows_ == table_rows(h, cells, <<>>)
    IN  The({IF ~rows.ok THEN Raise(h, rows.s)
             ELSE Expression_init(rows.heap, "Table", rows.v, attributes)
             : rows \in {rows_}})

(***************************************************************************)
(* The operators of BaseExpression.                                        *)
(***************************************************************************)
\* an addition that extends a sum on its left instead of nesting it
BaseExpression_add_flat(h, self, other) ==
    IF h[self.i].cls = "Plus"
    THEN Expression_init(h, "Plus", Append(h[self.i].children, other), <<>>)
    ELSE Expression_init(h, "Plus", <<self, other>>, <<>>)

BaseExpression_add(h, self, other) ==
    Expression_init(h, "Plus", <<self, other>>, <<>>)

BaseExpression_radd(h, self, other) ==
    Expression_init(h, "Plus", <<other, self>>, <<>>)

BaseExpression_sub(h, self, other) ==
    Expression_init(h, "Minus", <<self, other>>, <<>>)

\* a reflected subtraction that keeps self on the left
BaseExpression_rsub_unreflected(h, self, other) ==
    Expression_init(h, "Minus", <<self, other>>, <<>>)

BaseExpression_rsub(h, self, other) ==
    Expression_init(h, "Minus", <<other, self>>, <<>>)

BaseExpression_mul(h, self, other) ==
    Expression_init(h, "Times", <<self, other>>, <<>>)

BaseExpression_rmul(h, self, other) ==
    Expression_init(h, "Times", <<other, self>>, <<>>)

BaseExpression_pow(h, self, other) ==
    Expression_init(h, "Sup", <<self, other>>, <<>>)

BaseExpression_neg(h, self) == Expression_init(h, "Neg", <<self>>, <<>>)

BaseExpression_pos(h, self) == Expression_init(h, "Pos", <<self>>, <<>>)

\* a subscript key: a tuple of values, or one value that is not a tuple
TupleKey(items) == [tuple |-> TRUE, items |-> items]
PlainKey(v) == [tuple |-> FALSE, items |-> <<v>>]

\* a subscript that fences every key, tuple or not
BaseExpression_getitem_fenced(h, self, key) ==
    LET subscript ==
            Expression_init(h, "Fenced", key.items,
                << <<"open", PyStr("")>>, <<"close", PyStr("")>> >>)
    IN  IF ~subscript.ok THEN subscript
        ELSE Expression_init(subscript.heap, "Sub", <<self, subscript.v>>,
                             <<>>)

BaseExpression_getitem(h, self, key) ==
    LET subscript ==
            IF key.tuple
            THEN Expression_init(h, "Fenced", key.items,
                     << <<"open", PyStr("")>>, <<"close", PyStr("")>> >>)
            ELSE Return(h, key.items[1])
    IN  IF ~subscript.ok THEN subscript
        ELSE Expression_init(subscript.heap, "Sub", <<self, subscript.v>>,
                             <<>>)

(***************************************************************************)
(* The calls a program makes, and the values it passes.                    *)
(***************************************************************************)
\* values that are not nodes
RawValues == {None_, PyInt(2), PyInt(-13), PyStr("x"), List_}

\* the values stored in tokens
TokenValues == {PyStr("a")}

\* attribute mappings, as the ordered (key, value) pairs of **attributes
AttributeSets ==
    {<<>>,
     << <<"mathvariant", PyStr("bold")>>, <<"mathsize", PyStr("big")>> >>}

\* the classes whose constructor Spec calls directly
ConstructClasses == {"Row", "Frac", "SubSup"}

\* the classes whose constructor SpecOperations calls directly
OperationSample == {"Neg", "Equals", "Plus", "Minus", "Times", "Sum"}

\* the values passed as children: a node already built, None or a number
ArgValues(h) == {Ref(id) : id \in UserIds(h)} \cup {None_, PyInt(2)}

\* argument lists holding a value of an unsupported type
BadArgLists == {<<List_>>, <<PyInt(2), List_>>}

\* the positional argument lists of a constructor call
ArgLists(h) ==
    UNION {[1..n -> ArgValues(h)] : n \in 0..MaxArgs} \cup BadArgLists

\* the value a top-level call is about: the object built last or, before
\* any is built, a raw value
Subjects(h) == IF UserIds(h) = {} THEN RawValues ELSE {Ref(Len(h))}

\* the values of the display argument
Displays == {None_, PyStr("block"), PyInt(1)}

\* the record of a call: what was called with what, and what came back
Called(op, cls, args, kw, display, r) ==
    [op |-> op, cls |-> cls, args |-> args, kw |-> kw, display |-> display,
     ok |-> r.ok, v |-> r.v, s |-> r.s]

NoCall ==
    [op |-> "", cls |-> "", args |-> <<>>, kw |-> <<>>, display |-> None_,
     ok |-> TRUE, v |-> None_, s |-> ""]

\* objects allocated since the import
Allocated(h) == Len(h) - Len(ClassOperators)

\* a rendering as the result of a call
AsReturn(r) == [ok |-> r.ok, s |-> r.s, v |-> IF r.ok THEN PyStr(r.s) ELSE None_]

Init ==
    /\ heap = ClassOperators
    /\ ret = NoCall

\* cls(value, **attributes) for a token class
NewToken(cls, value, attributes) ==
    LET r == Token_init(heap, cls, value, attributes)
    IN  /\ Allocated(r.heap) <= MaxObjects
        /\ heap' = r.heap
        /\ ret' = Called("Token", cls, <<value>>, attributes, None_, r)

\* cls(*args, **attributes) for a class derived from Expression
Construct(cls, args, attributes) ==
    LET r == Expression_init(heap, cls, args, attributes)
    IN  /\ Allocated(heap) < MaxObjects
        /\ Allocated(r.heap) <= MaxObjects
        /\ heap' = r.heap
        /\ ret' = Called("Expression", cls, args, attributes, None_, r)

\* expression(v)
Coerce(v) ==
    LET r == expression(heap, v)
    IN  /\ Allocated(r.heap) <= MaxObjects
        /\ heap' = r.heap
        /\ ret' = Called("expression", "", <<v>>, <<>>, None_, r)

\* to_mml(expr, display): the objects the call allocates die with it, the
\* others are left as the call leaves them
ToMml(expr, display) ==
    \E r \in {to_mml(heap, expr, display)} :
        /\ ret' = Called("to_mml", "", <<expr>>, <<>>, display, AsReturn(r))
        /\ heap' = Live(r.heap, heap)

\* utils.tomathml(expr, display)
ToMathml(expr, display) ==
    /\ ret' = Called("tomathml", "", <<expr>>, <<>>, display,
                     AsReturn(tomathml(heap, expr, display)))
    /\ UNCHANGED heap

Next ==
    \/ \E cls \in TokenClasses, value \in TokenValues,
          attributes \in AttributeSets : NewToken(cls, value, attributes)
    \/ /\ Allocated(heap) < MaxObjects
       /\ \E cls \in ConstructClasses, args \in ArgLists(heap),
             attributes \in AttributeSets : Construct(cls, args, attributes)
    \/ \E v \in Subjects(heap) : Coerce(v)
    \/ \E expr \in Subjects(heap), display \in Displays : ToMml(expr, display)
    \/ \E expr \in Subjects(heap), display \in {None_, PyStr("block")} :
          ToMathml(expr, display)

Spec == Init /\ [][Next]_vars


(***************************************************************************)
(* SpecOperations: a program that builds identifiers and unary, binary and *)
(* n-ary operation nodes over them, and renders what it built.             *)
(***************************************************************************)
NextOperations ==
    \/ \E attributes \in AttributeSets :
          NewToken("Identifier", PyStr("a"), attributes)
    \/ /\ Allocated(heap) < MaxObjects
       /\ \E cls \in OperationSample, args \in ArgLists(heap),
             attributes \in AttributeSets : Construct(cls, args, attributes)
    \/ \E display \in {None_, PyStr("block")} :
          /\ UserIds(heap) # {}
          /\ ToMml(Ref(Len(heap)), display)

SpecOperations == Init /\ [][NextOperations]_vars

(***************************************************************************)
(* SpecOps: a program that starts from a, b = identifiers('a', 'b') and    *)
(* composes expressions with the operators of BaseExpression.              *)
(***************************************************************************)
\* the heap after a, b = identifiers('a', 'b')
identifiers_a_b ==
    ClassOperators \o
        <<Token("Identifier", PyStr("a"), <<>>),
          Token("Identifier", PyStr("b"), <<>>)>>

\* the nodes built so far
Nodes(h) == {Ref(id) : id \in UserIds(h)}

\* the right-hand (or, reflected, left-hand) operands that are not nodes
RawOperands == {PyInt(2), PyStr("x"), List_}

\* the subscript keys
Keys(h) ==
    {PlainKey(v) : v \in Nodes(h) \cup RawOperands \cup {None_}}
        \cup {TupleKey(items) :
                items \in UNION {[1..n -> {PyInt(1), PyInt(2)}] :
                                    n \in 0..MaxKey}}

\* the classes the operators instantiate
OperatorResults == {"Plus", "Minus", "Times", "Sup", "Sub", "Neg", "Pos"}

\* operators applied so far
Applied(h) ==
    Cardinality({id \in UserIds(h) : h[id].cls \in OperatorResults})

InitOps ==
    /\ heap = identifiers_a_b
    /\ ret = NoCall

\* the state after a call of an operator that returned or raised r
Apply(op, cls, args, r) ==
    /\ Applied(heap) < MaxOps
    /\ heap' = r.heap
    /\ ret' = Called(op, cls, args, <<>>, None_, r)

\* e1 + e2
Add(e1, e2) ==
    Apply("__add__", "", <<e1, e2>>, BaseExpression_add(heap, e1, e2))

\* e2 + e1, e2 not a node
RAdd(e1, e2) ==
    Apply("__radd__", "", <<e1, e2>>, BaseExpression_radd(heap, e1, e2))

\* e1 - e2
Sub(e1, e2) ==
    Apply("__sub__", "", <<e1, e2>>, BaseExpression_sub(heap, e1, e2))

\* e2 - e1, e2 not a node
RSub(e1, e2) ==
    Apply("__rsub__", "", <<e1, e2>>, BaseExpression_rsub(heap, e1, e2))

\* e1 * e2
Mul(e1, e2) ==
    Apply("__mul__", "", <<e1, e2>>, BaseExpression_mul(heap, e1, e2))

\* e2 * e1, e2 not a node
RMul(e1, e2) ==
    Apply("__rmul__", "", <<e1, e2>>, BaseExpression_rmul(heap, e1, e2))

\* e1 ** e2
Pow(e1, e2) ==
    Apply("__pow__", "", <<e1, e2>>, BaseExpression_pow(heap, e1, e2))

\* -e1
Neg(e1) == Apply("__neg__", "", <<e1>>, BaseExpression_neg(heap, e1))

\* +e1
Pos(e1) == Apply("__pos__", "", <<e1>>, BaseExpression_pos(heap, e1))

\* e1[key]
GetItem(e1, key) ==
    Apply("__getitem__", IF key.tuple THEN "tuple" ELSE "", <<e1>> \o key.items,
          BaseExpression_getitem(heap, e1, key))

\* the program has operators left to apply
MayOperate == Applied(heap) < MaxOps

NextOps ==
    \/ /\ MayOperate
       /\ \E e1 \in Nodes(heap), e2 \in Nodes(heap) \cup RawOperands :
             Add(e1, e2)
    \/ /\ MayOperate
       /\ \E e1 \in Nodes(heap), e2 \in RawOperands : RAdd(e1, e2)
    \/ /\ MayOperate
       /\ \E e1 \in Nodes(heap), e2 \in Nodes(heap) \cup RawOperands :
             Sub(e1, e2)
    \/ /\ MayOperate
       /\ \E e1 \in Nodes(heap), e2 \in RawOperands : RSub(e1, e2)
    \/ /\ MayOperate
       /\ \E e1 \in Nodes(heap), e2 \in Nodes(heap) \cup RawOperands :
             Mul(e1, e2)
    \/ /\ MayOperate
       /\ \E e1 \in Nodes(heap), e2 \in RawOperands : RMul(e1, e2)
    \/ /\ MayOperate
       /\ \E e1 \in Nodes(heap), e2 \in Nodes(heap) \cup RawOperands :
             Pow(e1, e2)
    \/ /\ MayOperate
       /\ \E e1 \in Nodes(heap) : Neg(e1)
    \/ /\ MayOperate
       /\ \E e1 \in Nodes(heap) : Pos(e1)
    \/ /\ MayOperate
       /\ \E e1 \in Nodes(heap), key \in Keys(heap) : GetItem(e1, key)
    \/ \E display \in {None_, PyStr("block")} : ToMml(Ref(Len(heap)), display)

SpecOps == InitOps /\ [][NextOps]_vars


(***************************************************************************)
(* SpecTrees: a program that builds tokens around text and around nodes,   *)
(* rows, operations and tables, with attributes of any key, and renders    *)
(* what it built.                                                          *)
(***************************************************************************)
\* attribute mappings with a key that is also the name of a parameter of
\* to_xml_string
ReservedKeySets ==
    {<< <<"text", PyStr("t")>> >>,
     << <<"children", PyStr("c")>> >>,
     << <<"tag", PyStr("g")>> >>,
     << <<"mathvariant", PyStr("bold")>>, <<"text", PyStr("t")>> >>}

KeywordSets == AttributeSets \cup ReservedKeySets

\* the token classes SpecTrees instantiates
TreeTokenClasses == {"Identifier", "Text"}

\* the classes whose constructor SpecTrees calls directly
TreeClasses == {"Row", "Neg", "Plus", "Sum"}

\* the positional argument lists of those calls
TreeArgLists(h) ==
    {<<>>} \cup UNION {{<<v>>, <<v, None_>>, <<v, None_, None_>>,
                        <<v, None_, v>>} : v \in Nodes(h)}

\* a row of cells
TableRows(h) ==
    UNION {[1..n -> Nodes(h) \cup {None_, PyInt(2)}] : n \in 0..MaxCells}

\* the cells argument of table: rows of cells, one of them with a cell of an
\* unsupported type
Tables(h) ==
    UNION {[1..n -> TableRows(h)] : n \in 0..MaxCells}
        \cup {<< <<PyInt(2), List_>> >>}

\* table(cells, **attributes)
MakeTable(cells, attributes) ==
    \E r \in {table(heap, cells, attributes)} :
        /\ heap' = r.heap
        /\ ret' = Called("table", "", cells, attributes, None_, r)

\* no table has been built
NoTable(h) == \A id \in UserIds(h) : h[id].cls # "Table"

NextTrees ==
    \/ \E cls \in TreeTokenClasses, value \in {PyStr("a")} \cup Nodes(heap),
          attributes \in KeywordSets : NewToken(cls, value, attributes)
    \/ /\ Allocated(heap) < MaxObjects
       /\ \E cls \in TreeClasses, args \in TreeArgLists(heap),
             attributes \in KeywordSets : Construct(cls, args, attributes)
    \/ /\ Allocated(heap) < MaxObjects
       /\ NoTable(heap)
       /\ \E cells \in Tables(heap), attributes \in AttributeSets :
             MakeTable(cells, attributes)
    \/ /\ UserIds(heap) # {}
       /\ ToMml(Ref(Len(heap)), None_)

SpecTrees == Init /\ [][NextTrees]_vars

(***************************************************************************)
(* The claims.                                                             *)
(***************************************************************************)
\* the call in ret was about this value
Subject == ret.args[1]

\* the bare rendering of a child: nothing for None, the node's own markup
\* otherwise
Bare(h, v) == IF v.t = "None" THEN Rendered("") ELSE method_to_mml(h, v.i)

\* the attributes of the two mappings of AttributeSets, as they must read in
\* a start tag
AttributeText(attributes) ==
    IF attributes = <<>> THEN ""
    ELSE " mathvariant=\"bold\" mathsize=\"big\""

\* the operator token of an operation class, as markup
OperatorToken(cls) ==
    CASE cls \in {"Pos", "Plus"} -> "<mo>+</mo>"
      [] cls \in {"Neg", "Minus"} -> "<mo>-</mo>"
      [] cls = "Equals" -> "<mo>=</mo>"
      [] cls = "Times" -> "<mo>U+2062</mo>"
      [] cls = "Sum" -> "<mo>U+2211</mo>"

\* every child of the object renders
ChildrenRender(h, id) ==
    \A k \in 1..Len(h[id].children) : Bare(h, h[id].children[k]).ok

\* operand 1, operator, operand 2, ..., operand n: 2n-1 pieces, the odd ones
\* the operands in stored order, the even ones the operator token
C1_Pieces(h, id) ==
    [j \in 1..(2 * Len(h[id].children) - 1) |->
        IF j % 2 = 1 THEN Bare(h, h[id].children[(j + 1) \div 2]).s
        ELSE OperatorToken(h[id].cls)]

\* C1: a binary operation node holding n >= 1 operands renders as one mrow
\* whose content is the operands' renderings in stored order with the node's
\* operator token between every adjacent pair: n renderings, n-1 tokens,
\* and no token at all when n = 1.  Checked of every such node of the heap,
\* and of the result of to_mml when it was called on one.
C1_BinaryInterleaves ==
    /\ \A id \in UserIds(heap) :
          (/\ heap[id].cls \in BinaryClasses
           /\ Len(heap[id].children) >= 1
           /\ ChildrenRender(heap, id))
          => method_to_mml(heap, id) =
                Rendered("<mrow>" \o join("", C1_Pieces(heap, id)) \o "</mrow>")
    /\ (/\ ret.op = "to_mml"
        /\ ret.display = None_
        /\ Subject.t = "ref"
        /\ heap[Subject.i].cls \in BinaryClasses
        /\ Len(heap[Subject.i].children) >= 1
        /\ ChildrenRender(heap, Subject.i))
       => /\ ret.ok
          /\ ret.s = "<mrow>" \o join("", C1_Pieces(heap, Subject.i))
                        \o "</mrow>"

\* to_mml has rendered a binary node holding three operands, the first of
\* them a node
C1_Witness ==
    /\ ret.op = "to_mml"
    /\ ret.ok
    /\ ret.display = None_
    /\ Subject.t = "ref"
    /\ heap[Subject.i].cls \in BinaryClasses
    /\ Len(heap[Subject.i].children) = 3
    /\ heap[Subject.i].children[1].t = "ref"

\* the operator wrapped in its limits: W of the claim
C2_Wrapped(h, id) ==
    LET start == h[id].children[2]
        end == h[id].children[3]
        op == OperatorToken(h[id].cls)
    IN  CASE start.t # "None" /\ end.t # "None" ->
                "<munderover>" \o op \o Bare(h, start).s \o Bare(h, end).s
                    \o "</munderover>"
          [] start.t # "None" /\ end.t = "None" ->
                "<munder>" \o op \o Bare(h, start).s \o "</munder>"
          [] start.t = "None" /\ end.t # "None" ->
                "<mover>" \o op \o Bare(h, end).s \o "</mover>"
          [] start.t = "None" /\ end.t = "None" -> op

C2_Markup(h, id) ==
    "<mrow" \o AttributeText(h[id].attributes) \o ">" \o C2_Wrapped(h, id)
        \o Bare(h, h[id].children[1]).s \o "</mrow>"

\* With the attribute keys of AttributeSets, none of them the name of a
\* parameter of to_xml_string: a Sum with children (operand, lower, upper)
\* renders as mrow(W, operand) carrying the node's attributes, W being
\* munderover, munder, mover or the bare operator token according to which
\* limits are present.
C2_NaryLimits ==
    /\ \A id \in UserIds(heap) :
          (/\ heap[id].cls \in NaryClasses
           /\ Len(heap[id].children) = 3
           /\ ChildrenRender(heap, id))
          => method_to_mml(heap, id) = Rendered(C2_Markup(heap, id))
    /\ (/\ ret.op = "to_mml"
        /\ ret.display = None_
        /\ Subject.t = "ref"
        /\ heap[Subject.i].cls \in NaryClasses
        /\ Len(heap[Subject.i].children) = 3
        /\ ChildrenRender(heap, Subject.i))
       => ret.ok /\ ret.s = C2_Markup(heap, Subject.i)

\* to_mml has rendered a Sum that has attributes, an operand and a lower
\* limit but no upper limit
C2_Witness ==
    /\ ret.op = "to_mml"
    /\ ret.ok
    /\ ret.display = None_
    /\ Subject.t = "ref"
    /\ heap[Subject.i].cls = "Sum"
    /\ Len(heap[Subject.i].children) = 3
    /\ heap[Subject.i].attributes # <<>>
    /\ heap[Subject.i].children[1].t = "ref"
    /\ heap[Subject.i].children[2].t = "ref"
    /\ heap[Subject.i].children[3].t = "None"


\* the canonical decimal string of the numbers of RawValues
C3_Decimal(v) ==
    CASE v.i = 2 -> "2"
      [] v.i = -13 -> "-13"

\* C3: expression(v) returns an existing node unchanged (the same object),
\* None for None, for a number a Number token rendering as the number's
\* decimal string inside mn, for a text an Identifier token rendering as the
\* text verbatim inside mi, and raises the invalid-operand ValueError for
\* every other value; applying it to its own result returns that result and
\* allocates nothing.
C3_CoercionCases ==
    ret.op = "expression" =>
        /\ Subject.t = "ref" => ret.ok /\ ret.v = Subject
        /\ Subject.t = "None" => ret.ok /\ ret.v = None_
        /\ Subject.t = "int" =>
              /\ ret.ok
              /\ ret.v = Ref(Len(heap))
              /\ heap[ret.v.i].cls = "Number"
              /\ method_to_mml(heap, ret.v.i) =
                    Rendered("<mn>" \o C3_Decimal(Subject) \o "</mn>")
        /\ Subject.t = "str" =>
              /\ ret.ok
              /\ ret.v = Ref(Len(heap))
              /\ heap[ret.v.i].cls = "Identifier"
              /\ method_to_mml(heap, ret.v.i) =
                    Rendered("<mi>" \o Subject.s \o "</mi>")
        /\ Subject.t = "list" => ~ret.ok /\ ret.s = "ValueError: operand"
        /\ ret.ok => expression(heap, ret.v) = Return(heap, ret.v)

\* expression has turned the number -13 into a token
C3_Witness ==
    /\ ret.op = "expression"
    /\ Subject = PyInt(-13)
    /\ ret.ok
    /\ ret.v.t = "ref"

\* a value expression accepts
Coercible(v) == v.t \in {"None", "ref", "int", "str"}

\* C4: every child stored in a composite node is a node or None, never a
\* raw number or text; a constructor call given a child that cannot be
\* coerced raises the invalid-operand ValueError itself and builds nothing;
\* and rendering a node never raises that error.
C4_ChildrenCoerced ==
    /\ \A id \in UserIds(heap) :
          /\ \A k \in 1..Len(heap[id].children) :
                heap[id].children[k].t \in {"ref", "None"}
          /\ method_to_mml(heap, id) # Failed("ValueError: operand")
    /\ ret.op = "Expression" =>
          /\ ret.ok <=> \A k \in 1..Len(ret.args) : Coercible(ret.args[k])
          /\ ~ret.ok => ret.s = "ValueError: operand"
          /\ ret.ok => /\ ret.v = Ref(Len(heap))
                       /\ Len(heap[ret.v.i].children) = Len(ret.args)
    /\ (ret.op = "to_mml" /\ Subject.t = "ref") =>
          ret.s # "ValueError: operand"

\* a constructor was given a number among its children and has stored a
\* Number token in its place
C4_Witness ==
    /\ ret.op = "Expression"
    /\ ret.ok
    /\ \E k \in 1..Len(ret.args) :
          /\ ret.args[k] = PyInt(2)
          /\ heap[ret.v.i].children[k].t = "ref"
          /\ heap[heap[ret.v.i].children[k].i].cls = "Number"

\* the classes documented with a fixed number of children
FixedArityClasses ==
    {"Frac", "Sqrt", "Root", "Sub", "Sup", "SubSup", "Under", "Over",
     "UnderOver"}

\* the number of parameters each of them is documented with
Arity(cls) ==
    CASE cls = "Sqrt" -> 1
      [] cls \in {"Frac", "Root", "Sub", "Sup", "Under", "Over"} -> 2
      [] cls \in {"SubSup", "UnderOver"} -> 3

\* C5: constructing a fixed-arity class with coercible children succeeds
\* exactly when their number is the class's arity, and fails at once
\* otherwise.
C5_ArityEnforced ==
    (/\ ret.op = "Expression"
     /\ ret.cls \in FixedArityClasses
     /\ \A k \in 1..Len(ret.args) : Coercible(ret.args[k]))
    => (ret.ok <=> Len(ret.args) = Arity(ret.cls))

\* C6: for every tree and every display mode, utils.tomathml returns a
\* result, and that result is the tree core.to_mml returns as a string.
C6_BothRender ==
    (ret.op = "tomathml" /\ Subject.t \in {"ref", "None"})
    => /\ ret.ok
       /\ ret.s = to_mml(heap, Subject, ret.display).s

\* the bare rendering of the values Spec passes to to_mml
C10_Bare(h, v) ==
    CASE v.t \in {"ref", "None"} -> Bare(h, v)
      [] v.t = "int" -> Rendered("<mn>" \o C3_Decimal(v) \o "</mn>")
      [] v.t = "str" -> Rendered("<mi>" \o v.s \o "</mi>")
      [] v.t = "list" -> Failed("ValueError: operand")

\* the display argument as it must read in the attribute
C10_DisplayText(display) ==
    CASE display = PyStr("block") -> "block"
      [] display = PyInt(1) -> "1"

\* C10: to_mml(t) without a display mode returns the bare rendering of t;
\* with a display mode d it returns
\* <math xmlns="http://www.w3.org/1998/Math/MathML" display="d">, the bare
\* rendering, </math>: xmlns before display, d written as it is, whatever
\* it is.
C10_MathWrapper ==
    (ret.op = "to_mml" /\ C10_Bare(heap, Subject).ok) =>
        /\ ret.ok
        /\ ret.s =
              IF ret.display = None_ THEN C10_Bare(heap, Subject).s
              ELSE "<math xmlns=\"http://www.w3.org/1998/Math/MathML\" display=\""
                       \o C10_DisplayText(ret.display) \o "\">"
                       \o C10_Bare(heap, Subject).s \o "</math>"

\* to_mml has rendered a composite node with a display mode that is neither
\* inline nor block
C10_Witness ==
    /\ ret.op = "to_mml"
    /\ ret.ok
    /\ ret.display = PyInt(1)
    /\ Subject.t = "ref"
    /\ heap[Subject.i].cls \in ExpressionClasses
    /\ heap[Subject.i].children # <<>>


\* the rendering of an operand once coerced: a node's own markup, a number
\* of Keys or RawOperands inside mn, a text inside mi
OperandMarkup(h, v) ==
    CASE v.t = "ref" -> method_to_mml(h, v.i).s
      [] v.t = "None" -> ""
      [] v = PyInt(1) -> "<mn>1</mn>"
      [] v = PyInt(2) -> "<mn>2</mn>"
      [] v.t = "str" -> "<mi>" \o v.s \o "</mi>"

\* what the result of the operator call in ret must render as, me1 and me2
\* being the renderings of its operands
C7_Markup(op, me1, me2) ==
    CASE op = "__add__" -> "<mrow>" \o me1 \o "<mo>+</mo>" \o me2 \o "</mrow>"
      [] op = "__radd__" -> "<mrow>" \o me2 \o "<mo>+</mo>" \o me1 \o "</mrow>"
      [] op = "__sub__" -> "<mrow>" \o me1 \o "<mo>-</mo>" \o me2 \o "</mrow>"
      [] op = "__rsub__" -> "<mrow>" \o me2 \o "<mo>-</mo>" \o me1 \o "</mrow>"
      [] op = "__mul__" ->
            "<mrow>" \o me1 \o "<mo>U+2062</mo>" \o me2 \o "</mrow>"
      [] op = "__rmul__" ->
            "<mrow>" \o me2 \o "<mo>U+2062</mo>" \o me1 \o "</mrow>"
      [] op = "__pow__" -> "<msup>" \o me1 \o me2 \o "</msup>"
      [] op = "__pos__" -> "<mrow><mo>+</mo>" \o me1 \o "</mrow>"
      [] op = "__neg__" -> "<mrow><mo>-</mo>" \o me1 \o "</mrow>"

BinaryOperators ==
    {"__add__", "__radd__", "__sub__", "__rsub__", "__mul__", "__rmul__",
     "__pow__"}

UnaryOperators == {"__pos__", "__neg__"}

\* C7: for a node e1 and an operand e2 that is a node, a number or a text,
\* e1+e2, e1-e2, e1*e2 render as <mrow>me1<mo>OP</mo>me2</mrow> with OP +,
\* - and the invisible-times glyph, the reflected forms e2+e1, e2-e1, e2*e1
\* with me2 first, e1**e2 as <msup>me1 me2</msup>, and +e1, -e1 as
\* <mrow><mo>+</mo>me1</mrow>, <mrow><mo>-</mo>me1</mrow>.
C7_OperatorsRender ==
    /\ (ret.op \in BinaryOperators /\ ret.args[2].t \in {"ref", "int", "str"})
       => /\ ret.ok
          /\ ret.v = Ref(Len(heap))
          /\ method_to_mml(heap, ret.v.i) =
                Rendered(C7_Markup(ret.op, OperandMarkup(heap, ret.args[1]),
                                   OperandMarkup(heap, ret.args[2])))
    /\ ret.op \in UnaryOperators
       => /\ ret.ok
          /\ ret.v = Ref(Len(heap))
          /\ method_to_mml(heap, ret.v.i) =
                Rendered(C7_Markup(ret.op, OperandMarkup(heap, ret.args[1]),
                                   ""))

\* a text minus a node that is itself the result of an operator: the
\* reflected subtraction has run
C7_Witness ==
    /\ ret.op = "__rsub__"
    /\ ret.ok
    /\ ret.args[2] = PyStr("x")
    /\ heap[ret.args[1].i].cls \in OperatorResults

\* the values of the key of the subscript call in ret
C8_Key == Tail(ret.args)

\* C8: a[key] with a tuple key of N values builds
\* Sub(a, Fenced(the coerced values in order, open='', close='')) and renders
\* as <msub>a<mfenced open="" close="">v1...vN</mfenced></msub>; with a key
\* that is not a tuple it builds Sub(a, expression(key)), with no Fenced
\* around the key, and fails as expression(key) fails.
C8_Subscript ==
    ret.op = "__getitem__" =>
        /\ ret.ok <=> \A k \in 1..Len(C8_Key) : Coercible(C8_Key[k])
        /\ ~ret.ok => ret.s = "ValueError: operand"
        /\ ret.ok =>
              LET sub == heap[ret.v.i]
                  me1 == OperandMarkup(heap, ret.args[1])
              IN  /\ ret.v = Ref(Len(heap))
                  /\ sub.cls = "Sub"
                  /\ sub.attributes = <<>>
                  /\ Len(sub.children) = 2
                  /\ sub.children[1] = ret.args[1]
                  /\ ret.cls = "tuple" =>
                        /\ sub.children[2].t = "ref"
                        /\ LET fenced == heap[sub.children[2].i]
                           IN  /\ fenced.cls = "Fenced"
                               /\ fenced.attributes =
                                     << <<"open", PyStr("")>>,
                                        <<"close", PyStr("")>> >>
                               /\ Len(fenced.children) = Len(C8_Key)
                               /\ \A k \in 1..Len(C8_Key) :
                                     /\ fenced.children[k].t = "ref"
                                     /\ heap[fenced.children[k].i] =
                                           Token("Number", C8_Key[k], <<>>)
                        /\ method_to_mml(heap, ret.v.i) =
                              Rendered("<msub>" \o me1
                                  \o "<mfenced open=\"\" close=\"\">"
                                  \o join("", [k \in 1..Len(C8_Key) |->
                                          OperandMarkup(heap, C8_Key[k])])
                                  \o "</mfenced></msub>")
                  /\ ret.cls # "tuple" =>
                        /\ C8_Key[1].t \in {"ref", "None"} =>
                              sub.children[2] = C8_Key[1]
                        /\ C8_Key[1].t = "int" =>
                              /\ sub.children[2].t = "ref"
                              /\ heap[sub.children[2].i] =
                                    Token("Number", C8_Key[1], <<>>)
                        /\ C8_Key[1].t = "str" =>
                              /\ sub.children[2].t = "ref"
                              /\ heap[sub.children[2].i] =
                                    Token("Identifier", C8_Key[1], <<>>)
                        /\ method_to_mml(heap, ret.v.i) =
                              Rendered("<msub>" \o me1
                                  \o OperandMarkup(heap, C8_Key[1])
                                  \o "</msub>")

\* a node was subscripted with the tuple (1, 2)
C8_Witness ==
    /\ ret.op = "__getitem__"
    /\ ret.cls = "tuple"
    /\ ret.ok
    /\ C8_Key = <<PyInt(1), PyInt(2)>>

\* the object is the sum a + b of the two identifiers
IsAPlusB(h, v) ==
    /\ v.t = "ref"
    /\ h[v.i].cls = "Plus"
    /\ Len(h[v.i].children) = 2
    /\ h[v.i].children[1].t = "ref"
    /\ h[h[v.i].children[1].i] = Token("Identifier", PyStr("a"), <<>>)
    /\ h[v.i].children[2].t = "ref"
    /\ h[h[v.i].children[2].i] = Token("Identifier", PyStr("b"), <<>>)

\* C9: with a and b the identifiers named a and b, (a+b)**2 renders as
\* <mrow><mi>a</mi><mo>+</mo><msup><mi>b</mi><mn>2</mn></msup></mrow>: the
\* superscript on b alone, the sum outermost.
C9_PowerOfSum ==
    (/\ ret.op = "__pow__"
     /\ IsAPlusB(heap, ret.args[1])
     /\ ret.args[2] = PyInt(2))
    => /\ ret.ok
       /\ method_to_mml(heap, ret.v.i) =
             Rendered("<mrow><mi>a</mi><mo>+</mo><msup><mi>b</mi><mn>2</mn></msup></mrow>")


RECURSIVE AttributesMarkup(_)
\* a mapping as the attributes of a start tag: each key once, in insertion
\* order, as key="value" after a space
AttributesMarkup(attributes) ==
    IF attributes = <<>> THEN ""
    ELSE " " \o Head(attributes)[1] \o "=\"" \o Head(attributes)[2].s \o "\""
             \o AttributesMarkup(Tail(attributes))

\* the children that are not None
NonNull(children) == SelectSeq(children, LAMBDA c : c.t # "None")

\* the markup of a table over the cells, row by row and cell by cell
C11_TableMarkup(h, cells, attributes) ==
    "<mtable" \o AttributesMarkup(attributes) \o ">"
        \o join("", [r \in 1..Len(cells) |->
               "<mtr>"
                   \o join("", [k \in 1..Len(cells[r]) |->
                          "<mtd>" \o OperandMarkup(h, cells[r][k]) \o "</mtd>"])
                   \o "</mtr>"])
        \o "</mtable>"

\* C11: a generic composite node renders as its element around exactly the
\* renderings of its children that are not None, in stored order; and
\* table(cells) renders one mtr for every row and one mtd for every cell in
\* order, a None cell as an empty mtd.
C11_NullChildrenSkipped ==
    /\ \A id \in UserIds(heap) :
          (/\ heap[id].cls \in PlainClasses
           /\ ChildrenRender(heap, id))
          => method_to_mml(heap, id) =
                Rendered("<" \o tag(heap[id].cls)
                    \o AttributesMarkup(heap[id].attributes) \o ">"
                    \o join("", [k \in 1..Len(NonNull(heap[id].children)) |->
                           method_to_mml(heap,
                               NonNull(heap[id].children)[k].i).s])
                    \o "</" \o tag(heap[id].cls) \o ">")
    /\ (/\ ret.op = "table"
        /\ \A r \in 1..Len(ret.args) : \A k \in 1..Len(ret.args[r]) :
              /\ Coercible(ret.args[r][k])
              /\ Bare(heap, ret.args[r][k]).ok)
       => /\ ret.ok
          /\ heap[ret.v.i].cls = "Table"
          /\ method_to_mml(heap, ret.v.i) =
                Rendered(C11_TableMarkup(heap, ret.args, ret.kw))


\* C2: an n-ary limit operation node with children (operand, lower, upper)
\* renders as mrow(W, operand) carrying the node's attributes, whatever they
\* are, W being munderover(operator, lower, upper), munder(operator, lower),
\* mover(operator, upper) or the bare operator token according to which
\* limits are present.
C2_NaryCarriesAttributes ==
    \A id \in UserIds(heap) :
        (/\ heap[id].cls \in NaryClasses
         /\ Len(heap[id].children) = 3
         /\ ChildrenRender(heap, id))
        => method_to_mml(heap, id) =
              Rendered("<mrow" \o AttributesMarkup(heap[id].attributes) \o ">"
                  \o C2_Wrapped(heap, id)
                  \o Bare(heap, heap[id].children[1]).s \o "</mrow>")


\* the element a node must render to when its attribute mapping is copied
\* onto it: the node's own element for a token or a generic composite node,
\* the synthesized mrow for an operation node
C12_Markup(h, id) ==
    LET cls == h[id].cls
        attributes == AttributesMarkup(h[id].attributes)
    IN  CASE cls \in TokenClasses ->
                "<" \o tag(cls) \o attributes \o ">" \o py_str(h, h[id].value)
                    \o "</" \o tag(cls) \o ">"
          [] cls \in PlainClasses ->
                "<" \o tag(cls) \o attributes \o ">"
                    \o join("", [k \in 1..Len(h[id].children) |->
                           Bare(h, h[id].children[k]).s])
                    \o "</" \o tag(cls) \o ">"
          [] cls \in UnaryClasses ->
                "<mrow" \o attributes \o ">" \o OperatorToken(cls)
                    \o Bare(h, h[id].children[1]).s \o "</mrow>"
          [] cls \in BinaryClasses ->
                "<mrow" \o attributes \o ">" \o join("", C1_Pieces(h, id))
                    \o "</mrow>"
          [] cls \in NaryClasses ->
                "<mrow" \o attributes \o ">" \o C2_Wrapped(h, id)
                    \o Bare(h, h[id].children[1]).s \o "</mrow>"

\* the node has the children its rendering reads, and they render
C12_Renderable(h, id) ==
    /\ ChildrenRender(h, id)
    /\ h[id].cls \in UnaryClasses \cup BinaryClasses =>
          Len(h[id].children) >= 1
    /\ h[id].cls \in NaryClasses => Len(h[id].children) = 3

\* C12: whatever the keys of the attribute mapping a node was constructed
\* with, the element the node renders to (for an operation node the
\* synthesized mrow) carries exactly that mapping as its attributes, each
\* key once, in insertion order, and the rest of the output is what it is
\* without attributes.
C12_AttributesVerbatim ==
    \A id \in UserIds(heap) :
        C12_Renderable(heap, id)
        => method_to_mml(heap, id) = Rendered(C12_Markup(heap, id))

\* C13: rendering a node leaves every object of the heap as it was, the
\* operator tokens of the operation classes included, and returns the same
\* output again after the node or any other node has been rendered; the
\* heap after a call of to_mml is the heap before it, so that ret, what
\* the call returned, is what the node renders to now.
C13_RenderingIsPure ==
    /\ \A id \in UserIds(heap) :
          /\ Live(self_to_mml(heap, id).heap, heap) = heap
          /\ \A other \in UserIds(heap) :
                method_to_mml(Live(self_to_mml(heap, other).heap, heap), id)
                    = method_to_mml(heap, id)
    /\ (ret.op = "to_mml" /\ Subject.t = "ref") =>
          /\ Subject.i \in UserIds(heap)
          /\ ret.display = None_ =>
                /\ ret.ok = method_to_mml(heap, Subject.i).ok
                /\ ret.s = method_to_mml(heap, Subject.i).s

\* to_mml has rendered a binary operation over two operands or more, for
\* which it builds a list of operands and operator tokens and a Row
C13_Witness ==
    /\ ret.op = "to_mml"
    /\ ret.ok
    /\ Subject.t = "ref"
    /\ heap[Subject.i].cls \in BinaryClasses
    /\ Len(heap[Subject.i].children) >= 2
    /\ heap[Subject.i].attributes # <<>>

\* C14: every node the constructors returned renders: the render call
\* returns markup and raises nothing, whatever the number of children the
\* node was built with.
C14_RenderingNeverFails ==
    /\ \A id \in UserIds(heap) : method_to_mml(heap, id).ok
    /\ (ret.op = "to_mml" /\ Subject.t = "ref") => ret.ok

\* C15: a token whose value is a node renders as its element around the
\* markup of that node, the markup to_mml returns for it.
C15_TokenOfNode ==
    \A id \in UserIds(heap) :
        (/\ heap[id].cls \in TokenClasses
         /\ heap[id].value.t = "ref"
         /\ heap[id].attributes = <<>>
         /\ method_to_mml(heap, heap[id].value.i).ok)
        => method_to_mml(heap, id) =
              Rendered("<" \o tag(heap[id].cls) \o ">"
                  \o to_mml(heap, heap[id].value, None_).s
                  \o "</" \o tag(heap[id].cls) \o ">")

\* the operators that build a binary operation node, and the class each
\* builds
C16_Class(op) ==
    CASE op = "__add__" -> "Plus"
      [] op = "__sub__" -> "Minus"
      [] op = "__mul__" -> "Times"

\* the left operand of the operator call in ret is itself the result of
\* that operator
C16_Chained ==
    /\ ret.op \in {"__add__", "__sub__", "__mul__"}
    /\ heap[ret.args[1].i].cls = C16_Class(ret.op)
    /\ ret.args[2].t \in {"ref", "int", "str"}

\* C16: a + b + c builds Plus(Plus(a, b), c): a node with exactly two
\* children, the first of them the Plus a + b itself, left with its own two
\* children; it renders as an mrow inside an mrow,
\* <mrow><mrow>a<mo>+</mo>b</mrow><mo>+</mo>c</mrow>, and not as the flat
\* <mrow>a<mo>+</mo>b<mo>+</mo>c</mrow>; the same for - and *.
C16_ChainsNest ==
    C16_Chained =>
        LET inner == heap[ret.args[1].i]
            ma == OperandMarkup(heap, inner.children[1])
            mb == OperandMarkup(heap, inner.children[2])
            mc == OperandMarkup(heap, ret.args[2])
            mo == OperatorToken(C16_Class(ret.op))
        IN  /\ ret.ok
            /\ ret.v = Ref(Len(heap))
            /\ heap[ret.v.i].cls = C16_Class(ret.op)
            /\ Len(heap[ret.v.i].children) = 2
            /\ heap[ret.v.i].children[1] = ret.args[1]
            /\ Len(inner.children) = 2
            /\ method_to_mml(heap, ret.v.i) =
                  Rendered("<mrow><mrow>" \o ma \o mo \o mb \o "</mrow>" \o mo
                      \o mc \o "</mrow>")
            /\ method_to_mml(heap, ret.v.i) #
                  Rendered("<mrow>" \o ma \o mo \o mb \o mo \o mc \o "</mrow>")

\* a + b + c has been built with c a node
C16_Witness ==
    /\ C16_Chained
    /\ ret.op = "__add__"
    /\ ret.ok
    /\ ret.args[2].t = "ref"

====
